---- MODULE Spec2Model ----
(***************************************************************************)
(* Model of pyensembl/ensembl_url_templates.py: the templates that give    *)
(* the URL and the filename of a GTF or FASTA file on the Ensembl servers. *)
(*                                                                         *)
(* Python strings are TLA+ strings (Len, SubSeq and \o act on their        *)
(* characters).  An optional argument is a sequence of length 0 (None) or  *)
(* 1 (the value).  One call is one action; the collaborator calls it makes *)
(* (species catalog, release validator, reference read) are logged in the  *)
(* order the code makes them.                                              *)
(***************************************************************************)
EXTENDS Integers, Sequences, FiniteSets, TLC

VARIABLES
    pc,              \* "idle": no call in progress; "done": a call has returned or raised
    op,              \* the function that was called
    ensembl_release, \* argument: optional integer
    species,         \* argument: a name (str) or a Species object
    server,          \* argument: optional string
    database,        \* argument: optional string
    sequence_type,   \* argument: string
    result,          \* what the call returned or raised
    calls            \* the collaborator calls the call made, in order

vars == <<pc, op, ensembl_release, species, server, database, sequence_type, result, calls>>

None == <<>>
Some(v) == <<v>>

----------------------------------------------------------------------------
(* Bounds of the model.  The tables of supported releases belong to the    *)
(* release validator; the model takes a range per database that holds      *)
(* both era thresholds.                                                    *)

MIN_ENSEMBL_RELEASE == 1
MAX_ENSEMBL_RELEASE == 78
MIN_ENSEMBLGENOME_RELEASE == 3
MAX_ENSEMBLGENOME_RELEASE == 77
MaxReleaseInput == 79

----------------------------------------------------------------------------
(* Python string operations.                                               *)

LowerLetters == "abcdefghijklmnopqrstuvwxyz"
UpperLetters == "ABCDEFGHIJKLMNOPQRSTUVWXYZ"
Digits == "0123456789"

Char(s, i) == SubSeq(s, i, i)

\* str.upper() and str.lower() of one character
UpperOf == [i \in 1..26 |-> Char(UpperLetters, i)]
LowerOf == [i \in 1..26 |-> Char(LowerLetters, i)]

upper(c) ==
    IF \E i \in 1..26 : LowerOf[i] = c
    THEN UpperOf[CHOOSE i \in 1..26 : LowerOf[i] = c]
    ELSE c

lower(c) ==
    IF \E i \in 1..26 : UpperOf[i] = c
    THEN LowerOf[CHOOSE i \in 1..26 : UpperOf[i] = c]
    ELSE c

RECURSIVE str_lower(_)
str_lower(s) ==
    IF s = "" THEN "" ELSE lower(Char(s, 1)) \o str_lower(SubSeq(s, 2, Len(s)))

\* str.capitalize(): the first character upper-cased, the rest lower-cased
capitalize(s) ==
    IF s = "" THEN "" ELSE upper(Char(s, 1)) \o str_lower(SubSeq(s, 2, Len(s)))

\* "%d" % n
RECURSIVE format_d(_)
format_d(n) ==
    IF n < 0 THEN "-" \o format_d(0 - n)
    ELSE IF n < 10 THEN Char(Digits, n + 1)
    ELSE format_d(n \div 10) \o Char(Digits, (n % 10) + 1)

----------------------------------------------------------------------------
(* The collaborators: species catalog and release validator.               *)

HomoSapiens ==
    [ latin_name |-> "homo_sapiens",
      synonyms |-> {"human"},
      database |-> None,
      reference_assemblies |->
          << [name |-> "NCBI36", first |-> 0],
             [name |-> "GRCh37", first |-> 55],
             [name |-> "GRCh38", first |-> 76] >> ]

GlycineMax ==
    [ latin_name |-> "glycine_max",
      synonyms |-> {"soybean"},
      database |-> Some("plants"),
      reference_assemblies |->
          << [name |-> "V1.0", first |-> 0],
             [name |-> "Glycine_max_v2.1", first |-> 32] >> ]

\* a Species object built by the caller and not registered in the catalog
CustomSpecies ==
    [ latin_name |-> "custom_species",
      synonyms |-> {},
      database |-> None,
      reference_assemblies |-> << [name |-> "ASM1", first |-> 0] >> ]

\* the species the catalog knows
Catalog == {HomoSapiens, GlycineMax}

SpeciesObjects == Catalog \cup {CustomSpecies}

\* stands where there is no Species object
NoSpecies == [latin_name |-> "", synonyms |-> {}, database |-> None, reference_assemblies |-> <<>>]

\* a species argument: a string, or a Species object
Name(n) == [isSpecies |-> FALSE, name |-> n, obj |-> NoSpecies]
Obj(sp) == [isSpecies |-> TRUE, name |-> "", obj |-> sp]

\* find_species_by_name: the catalog species a name or alias stands for
Resolves(name, sp) ==
    LET n == str_lower(name)
    IN  n = sp.latin_name \/ n \in sp.synonyms

find_species_by_name(name) ==
    IF \E sp \in Catalog : Resolves(name, sp)
    THEN [ok |-> TRUE, sp |-> CHOOSE sp \in Catalog : Resolves(name, sp), error |-> ""]
    ELSE [ok |-> FALSE, sp |-> NoSpecies, error |-> "UnknownSpeciesError"]

\* check_release_number: the release as an integer, None standing for the latest
MinRelease(db) == IF db = None THEN MIN_ENSEMBL_RELEASE ELSE MIN_ENSEMBLGENOME_RELEASE
MaxRelease(db) == IF db = None THEN MAX_ENSEMBL_RELEASE ELSE MAX_ENSEMBLGENOME_RELEASE

check_release_number(release, db) ==
    IF release = None
    THEN [ok |-> TRUE, release |-> MaxRelease(db), error |-> ""]
    ELSE IF release[1] < MinRelease(db) \/ release[1] > MaxRelease(db)
    THEN [ok |-> FALSE, release |-> 0, error |-> "InvalidReleaseError"]
    ELSE [ok |-> TRUE, release |-> release[1], error |-> ""]

\* Species.which_reference: the assembly in use at a release
which_reference(sp, release) ==
    LET A == sp.reference_assemblies
        i == CHOOSE k \in 1..Len(A) :
                 /\ A[k].first <= release
                 /\ \A j \in 1..Len(A) : A[j].first <= release => A[j].first <= A[k].first
    IN A[i].name

\* entries of the log of collaborator calls
LookupCall(name, r) ==
    [fn |-> "find_species_by_name", name |-> name, release |-> None,
     database |-> None, ok |-> r.ok, out |-> IF r.ok THEN r.sp.latin_name ELSE r.error]
ValidateCall(sp, release, r) ==
    [fn |-> "check_release_number", name |-> sp.latin_name, release |-> release,
     database |-> sp.database, ok |-> r.ok, out |-> IF r.ok THEN format_d(r.release) ELSE r.error]
ReferenceCall(sp, release, ref) ==
    [fn |-> "which_reference", name |-> sp.latin_name, release |-> Some(release),
     database |-> sp.database, ok |-> TRUE, out |-> ref]

----------------------------------------------------------------------------
(* ensembl_url_templates.py                                                *)

ENSEMBL_FTP_SERVER == "https://ftp.ensembl.org"
ENSEMBLGENOME_FTP_SERVER == "https://ftp.ensemblgenomes.ebi.ac.uk"

FASTA_SUBDIR_TEMPLATE(release, sp, type) ==
    "/pub/release-" \o format_d(release) \o "/fasta/" \o sp \o "/" \o type \o "/"
GTF_SUBDIR_TEMPLATE(release, sp) ==
    "/pub/release-" \o format_d(release) \o "/gtf/" \o sp \o "/"
DATABASE_FASTA_SUBDIR_TEMPLATE(release, db, sp, type) ==
    "/pub/release-" \o format_d(release) \o "/" \o db \o "/fasta/" \o sp \o "/" \o type \o "/"
DATABASE_GTF_SUBDIR_TEMPLATE(release, db, sp) ==
    "/pub/release-" \o format_d(release) \o "/" \o db \o "/gtf/" \o sp \o "/"

\* the GTF name written the way the newer FASTA names are, without the release
GTF_FILENAME_TEMPLATE_no_release(Species, reference, release) ==
    Species \o "." \o reference \o ".gtf.gz"

GTF_FILENAME_TEMPLATE(Species, reference, release) ==
    Species \o "." \o reference \o "." \o format_d(release) \o ".gtf.gz"
OLD_FASTA_FILENAME_TEMPLATE(Species, reference, release, type) ==
    Species \o "." \o reference \o "." \o format_d(release) \o "." \o type \o ".all.fa.gz"
OLD_FASTA_FILENAME_TEMPLATE_NCRNA(Species, reference, release) ==
    Species \o "." \o reference \o "." \o format_d(release) \o ".ncrna.fa.gz"
NEW_FASTA_FILENAME_TEMPLATE(Species, reference, type) ==
    Species \o "." \o reference \o "." \o type \o ".all.fa.gz"
NEW_FASTA_FILENAME_TEMPLATE_NCRNA(Species, reference) ==
    Species \o "." \o reference \o ".ncrna.fa.gz"

\* what a function hands back: a value, or the error it raised; with the calls it made
Return(value, log) == [ok |-> TRUE, value |-> value, error |-> "", calls |-> log]
Raise(error, log) == [ok |-> FALSE, value |-> "", error |-> error, calls |-> log]

\* normalize_release_properties: (release, latin name, reference name), or the
\* error of the first collaborator that fails
Normalized(release, latin_name, reference_name, log) ==
    [ok |-> TRUE, error |-> "", release |-> release, latin_name |-> latin_name,
     reference_name |-> reference_name, calls |-> log]
NotNormalized(error, log) ==
    [ok |-> FALSE, error |-> error, release |-> 0, latin_name |-> "",
     reference_name |-> "", calls |-> log]

\* an unsupported release replaced by the latest one instead of raising
normalize_release_properties_default(release, sp_arg) ==
    LET found == IF sp_arg.isSpecies
                 THEN [ok |-> TRUE, sp |-> sp_arg.obj, error |-> ""]
                 ELSE find_species_by_name(sp_arg.name)
        log1 == IF sp_arg.isSpecies THEN <<>> ELSE <<LookupCall(sp_arg.name, found)>>
    IN  IF ~found.ok THEN NotNormalized(found.error, log1)
        ELSE
        LET sp == found.sp
            first == check_release_number(release, sp.database)
            checked == IF first.ok THEN first ELSE check_release_number(None, sp.database)
            log2 == IF first.ok
                    THEN Append(log1, ValidateCall(sp, release, first))
                    ELSE log1 \o <<ValidateCall(sp, release, first), ValidateCall(sp, None, checked)>>
            reference_name == which_reference(sp, checked.release)
            log3 == Append(log2, ReferenceCall(sp, checked.release, reference_name))
        IN  Normalized(checked.release, sp.latin_name, reference_name, log3)

\* the isinstance test of line 77 left out: a Species object is looked up by its name again
normalize_release_properties_always_lookup(release, sp_arg) ==
    LET name == IF sp_arg.isSpecies THEN sp_arg.obj.latin_name ELSE sp_arg.name
        found == find_species_by_name(name)
        log1 == <<LookupCall(name, found)>>
    IN  IF ~found.ok THEN NotNormalized(found.error, log1)
        ELSE
        LET sp == found.sp
            checked == check_release_number(release, sp.database)
            log2 == Append(log1, ValidateCall(sp, release, checked))
        IN  IF ~checked.ok THEN NotNormalized(checked.error, log2)
            ELSE
            LET reference_name == which_reference(sp, checked.release)
                log3 == Append(log2, ReferenceCall(sp, checked.release, reference_name))
            IN  Normalized(checked.release, sp.latin_name, reference_name, log3)

\* the release validated without the species' database (line 80 left out)
normalize_release_properties_no_database(release, sp_arg) ==
    LET found == IF sp_arg.isSpecies
                 THEN [ok |-> TRUE, sp |-> sp_arg.obj, error |-> ""]
                 ELSE find_species_by_name(sp_arg.name)
        log1 == IF sp_arg.isSpecies THEN <<>> ELSE <<LookupCall(sp_arg.name, found)>>
    IN  IF ~found.ok THEN NotNormalized(found.error, log1)
        ELSE
        LET sp == found.sp
            checked == check_release_number(release, None)
            log2 == Append(log1, [ValidateCall(sp, release, checked) EXCEPT !.database = None])
        IN  IF ~checked.ok THEN NotNormalized(checked.error, log2)
            ELSE
            LET reference_name == which_reference(sp, checked.release)
                log3 == Append(log2, ReferenceCall(sp, checked.release, reference_name))
            IN  Normalized(checked.release, sp.latin_name, reference_name, log3)

normalize_release_properties(release, sp_arg) ==
    LET found == IF sp_arg.isSpecies
                 THEN [ok |-> TRUE, sp |-> sp_arg.obj, error |-> ""]
                 ELSE find_species_by_name(sp_arg.name)
        log1 == IF sp_arg.isSpecies THEN <<>> ELSE <<LookupCall(sp_arg.name, found)>>
    IN  IF ~found.ok THEN NotNormalized(found.error, log1)
        ELSE
        LET sp == found.sp
            checked == check_release_number(release, sp.database)
            log2 == Append(log1, ValidateCall(sp, release, checked))
        IN  IF ~checked.ok THEN NotNormalized(checked.error, log2)
            ELSE
            LET reference_name == which_reference(sp, checked.release)
                log3 == Append(log2, ReferenceCall(sp, checked.release, reference_name))
            IN  Normalized(checked.release, sp.latin_name, reference_name, log3)

make_gtf_filename(release, sp_arg) ==
    LET n == normalize_release_properties(release, sp_arg)
    IN  IF ~n.ok THEN Raise(n.error, n.calls)
        ELSE Return(GTF_FILENAME_TEMPLATE(capitalize(n.latin_name), n.reference_name, n.release),
                    n.calls)

\* the two roots exchanged
select_server_swapped(server_arg, db) ==
    IF server_arg = None
    THEN (IF db = None THEN ENSEMBLGENOME_FTP_SERVER ELSE ENSEMBL_FTP_SERVER)
    ELSE server_arg[1]

\* lines 105-109 and 182-186: the caller's server, or the root the database argument selects
select_server(server_arg, db) ==
    IF server_arg = None
    THEN (IF db = None THEN ENSEMBL_FTP_SERVER ELSE ENSEMBLGENOME_FTP_SERVER)
    ELSE server_arg[1]

\* the species capitalized in the directory as it is in the filename
gtf_subdir_capitalized(release, latin_name, db) ==
    IF db = None
    THEN GTF_SUBDIR_TEMPLATE(release, capitalize(latin_name))
    ELSE DATABASE_GTF_SUBDIR_TEMPLATE(release, db[1], capitalize(latin_name))

\* lines 113-123
gtf_subdir(release, latin_name, db) ==
    IF db = None
    THEN GTF_SUBDIR_TEMPLATE(release, latin_name)
    ELSE DATABASE_GTF_SUBDIR_TEMPLATE(release, db[1], latin_name)

make_gtf_url(release, sp_arg, server_arg, db) ==
    LET srv == select_server(server_arg, db)
        n == normalize_release_properties(release, sp_arg)
    IN  IF ~n.ok THEN Raise(n.error, n.calls)
        ELSE
        LET subdir == gtf_subdir(n.release, n.latin_name, db)
            filename == make_gtf_filename(Some(n.release), Name(n.latin_name))
        IN  IF ~filename.ok THEN Raise(filename.error, n.calls \o filename.calls)
            ELSE Return(srv \o subdir \o filename.value, n.calls \o filename.calls)

\* the thresholds taken as exclusive
old_fasta_name_exclusive(release, db) ==
    (release < 75 /\ db = None) \/ (release < 31 /\ db # None)

\* the primary collection's threshold one release late
old_fasta_name_late_threshold(release, db) ==
    (release <= 76 /\ db = None) \/ (release <= 31 /\ db # None)

\* the test of lines 137-139: the filename carries the release number
old_fasta_name(release, db) ==
    (release <= 75 /\ db = None) \/ (release <= 31 /\ db # None)

\* the era taken from the database tag of the species instead of the database argument
make_fasta_filename_species_tag(release, sp_arg, db, type) ==
    LET n == normalize_release_properties(release, sp_arg)
        tag == (CHOOSE sp \in SpeciesObjects : sp.latin_name = n.latin_name).database
    IN  IF ~n.ok THEN Raise(n.error, n.calls)
        ELSE IF old_fasta_name(n.release, tag)
        THEN IF type = "ncrna"
             THEN Return(OLD_FASTA_FILENAME_TEMPLATE_NCRNA(
                             capitalize(n.latin_name), n.reference_name, n.release), n.calls)
             ELSE Return(OLD_FASTA_FILENAME_TEMPLATE(
                             capitalize(n.latin_name), n.reference_name, n.release, type), n.calls)
        ELSE IF type = "ncrna"
             THEN Return(NEW_FASTA_FILENAME_TEMPLATE_NCRNA(
                             capitalize(n.latin_name), n.reference_name), n.calls)
             ELSE Return(NEW_FASTA_FILENAME_TEMPLATE(
                             capitalize(n.latin_name), n.reference_name, type), n.calls)

make_fasta_filename(release, sp_arg, db, type) ==
    LET n == normalize_release_properties(release, sp_arg)
    IN  IF ~n.ok THEN Raise(n.error, n.calls)
        ELSE IF old_fasta_name(n.release, db)
        THEN IF type = "ncrna"
             THEN Return(OLD_FASTA_FILENAME_TEMPLATE_NCRNA(
                             capitalize(n.latin_name), n.reference_name, n.release), n.calls)
             ELSE Return(OLD_FASTA_FILENAME_TEMPLATE(
                             capitalize(n.latin_name), n.reference_name, n.release, type), n.calls)
        ELSE IF type = "ncrna"
             THEN Return(NEW_FASTA_FILENAME_TEMPLATE_NCRNA(
                             capitalize(n.latin_name), n.reference_name), n.calls)
             ELSE Return(NEW_FASTA_FILENAME_TEMPLATE(
                             capitalize(n.latin_name), n.reference_name, type), n.calls)

\* lines 190-202
fasta_subdir(release, latin_name, type, db) ==
    IF db = None
    THEN FASTA_SUBDIR_TEMPLATE(release, latin_name, type)
    ELSE DATABASE_FASTA_SUBDIR_TEMPLATE(release, db[1], latin_name, type)

\* the database argument not handed on to make_fasta_filename (line 207 left out)
make_fasta_url_drops_database(release, sp_arg, type, server_arg, db) ==
    LET srv == select_server(server_arg, db)
        n == normalize_release_properties(release, sp_arg)
    IN  IF ~n.ok THEN Raise(n.error, n.calls)
        ELSE
        LET subdir == fasta_subdir(n.release, n.latin_name, type, db)
            filename == make_fasta_filename(Some(n.release), Name(n.latin_name), None, type)
        IN  IF ~filename.ok THEN Raise(filename.error, n.calls \o filename.calls)
            ELSE Return(srv \o subdir \o filename.value, n.calls \o filename.calls)

make_fasta_url(release, sp_arg, type, server_arg, db) ==
    LET srv == select_server(server_arg, db)
        n == normalize_release_properties(release, sp_arg)
    IN  IF ~n.ok THEN Raise(n.error, n.calls)
        ELSE
        LET subdir == fasta_subdir(n.release, n.latin_name, type, db)
            filename == make_fasta_filename(Some(n.release), Name(n.latin_name), db, type)
        IN  IF ~filename.ok THEN Raise(filename.error, n.calls \o filename.calls)
            ELSE Return(srv \o subdir \o filename.value, n.calls \o filename.calls)

----------------------------------------------------------------------------
(* The calls a caller can make.                                            *)

ReleaseInputs == {None} \cup {Some(r) : r \in 0..MaxReleaseInput}
SpeciesInputs ==
    {Name(n) : n \in {"human", "glycine_max", "unicorn"}}
        \cup {Obj(sp) : sp \in SpeciesObjects}
ServerInputs == {None, Some("ftp://mirror.example.org")}
DatabaseInputs == {None, Some("plants")}
SequenceTypes == {"cdna", "pep", "ncrna"}

NoResult == [ok |-> FALSE, value |-> "", error |-> ""]

Init ==
    /\ pc = "idle"
    /\ op = "none"
    /\ ensembl_release = None
    /\ species = Name("")
    /\ server = None
    /\ database = None
    /\ sequence_type = ""
    /\ result = NoResult
    /\ calls = <<>>

Finish(r) ==
    /\ pc' = "done"
    /\ result' = [ok |-> r.ok, value |-> r.value, error |-> r.error]
    /\ calls' = r.calls

Call_make_gtf_filename ==
    /\ pc = "idle"
    /\ \E r \in ReleaseInputs, s \in SpeciesInputs :
        /\ op' = "make_gtf_filename"
        /\ ensembl_release' = r
        /\ species' = s
        /\ UNCHANGED <<server, database, sequence_type>>
        /\ Finish(make_gtf_filename(r, s))

Call_make_gtf_url ==
    /\ pc = "idle"
    /\ \E r \in ReleaseInputs, s \in SpeciesInputs, sv \in ServerInputs, d \in DatabaseInputs :
        /\ op' = "make_gtf_url"
        /\ ensembl_release' = r
        /\ species' = s
        /\ server' = sv
        /\ database' = d
        /\ UNCHANGED sequence_type
        /\ Finish(make_gtf_url(r, s, sv, d))

Call_make_fasta_filename ==
    /\ pc = "idle"
    /\ \E r \in ReleaseInputs, s \in SpeciesInputs, d \in DatabaseInputs, t \in SequenceTypes :
        /\ op' = "make_fasta_filename"
        /\ ensembl_release' = r
        /\ species' = s
        /\ database' = d
        /\ sequence_type' = t
        /\ UNCHANGED server
        /\ Finish(make_fasta_filename(r, s, d, t))

Call_make_fasta_url ==
    /\ pc = "idle"
    /\ \E r \in ReleaseInputs, s \in SpeciesInputs, sv \in ServerInputs,
          d \in DatabaseInputs, t \in SequenceTypes :
        /\ op' = "make_fasta_url"
        /\ ensembl_release' = r
        /\ species' = s
        /\ server' = sv
        /\ database' = d
        /\ sequence_type' = t
        /\ Finish(make_fasta_url(r, s, t, sv, d))

\* the caller takes the result; the next call starts from nothing
Done ==
    /\ pc = "done"
    /\ pc' = "idle"
    /\ op' = "none"
    /\ ensembl_release' = None
    /\ species' = Name("")
    /\ server' = None
    /\ database' = None
    /\ sequence_type' = ""
    /\ result' = NoResult
    /\ calls' = <<>>

Next ==
    \/ Call_make_gtf_filename
    \/ Call_make_gtf_url
    \/ Call_make_fasta_filename
    \/ Call_make_fasta_url
    \/ Done

Spec == Init /\ [][Next]_vars

----------------------------------------------------------------------------
(* Vocabulary of the properties.                                           *)

StartsWith(s, t) == Len(t) <= Len(s) /\ SubSeq(s, 1, Len(t)) = t
EndsWith(s, t) == Len(t) <= Len(s) /\ SubSeq(s, Len(s) - Len(t) + 1, Len(s)) = t
Contains(s, t) == \E i \in 1..(Len(s) - Len(t) + 1) : SubSeq(s, i, i + Len(t) - 1) = t

\* s has tok as one of its dot-separated tokens
HasToken(s, tok) == Contains("." \o s \o ".", "." \o tok \o ".")

\* the part of a URL after its last "/" (the whole string when it has none)
RECURSIVE LastSlash(_, _)
LastSlash(s, i) == IF i = 0 THEN 0 ELSE IF Char(s, i) = "/" THEN i ELSE LastSlash(s, i - 1)
FilenameOf(s) == SubSeq(s, LastSlash(s, Len(s)) + 1, Len(s))

Called(f) == pc = "done" /\ op = f
UrlCall == pc = "done" /\ op \in {"make_gtf_url", "make_fasta_url"}
FastaCall == pc = "done" /\ op \in {"make_fasta_filename", "make_fasta_url"}
GtfCall == pc = "done" /\ op \in {"make_gtf_filename", "make_gtf_url"}

\* what the collaborators answer for the arguments of the call
TheSpecies ==
    IF species.isSpecies
    THEN [ok |-> TRUE, sp |-> species.obj, error |-> ""]
    ELSE find_species_by_name(species.name)
TheRelease == check_release_number(ensembl_release, TheSpecies.sp.database)
Resolved == TheSpecies.ok
Validated == Resolved /\ TheRelease.ok
R == TheRelease.release
Latin == TheSpecies.sp.latin_name
Reference == which_reference(TheSpecies.sp, R)

NumCalls(f) == Cardinality({i \in 1..Len(calls) : calls[i].fn = f})

----------------------------------------------------------------------------

OldEra == (database = None /\ R <= 75) \/ (database # None /\ R <= 31)

OldEraName ==
    IF sequence_type = "ncrna"
    THEN capitalize(Latin) \o "." \o Reference \o "." \o format_d(R) \o ".ncrna.fa.gz"
    ELSE capitalize(Latin) \o "." \o Reference \o "." \o format_d(R) \o "."
             \o sequence_type \o ".all.fa.gz"

NewEraName ==
    IF sequence_type = "ncrna"
    THEN capitalize(Latin) \o "." \o Reference \o ".ncrna.fa.gz"
    ELSE capitalize(Latin) \o "." \o Reference \o "." \o sequence_type \o ".all.fa.gz"

C1_Boundary75 ==
    /\ Called("make_fasta_filename") /\ ensembl_release = Some(75) /\ database = None
    /\ result.value = "Homo_sapiens.GRCh37.75.ncrna.fa.gz"
C1_Boundary76 ==
    /\ Called("make_fasta_filename") /\ ensembl_release = Some(76) /\ database = None
    /\ result.value = "Homo_sapiens.GRCh38.pep.all.fa.gz"
C1_Boundary32 ==
    /\ Called("make_fasta_filename") /\ ensembl_release = Some(32) /\ database = Some("plants")
    /\ result.value = "Glycine_max.Glycine_max_v2.1.ncrna.fa.gz"

----------------------------------------------------------------------------

NewEraNoDatabase == FastaCall /\ result.ok /\ database = None /\ R > 75

(* C2, as amended: for every release r > 75 with database None, the name   *)
(* make_fasta_filename returns, and the filename of the URL                *)
(* make_fasta_url returns, has no release number token; it ends in         *)
(* .{sequence_type}.all.fa.gz for every sequence_type other than "ncrna",  *)
(* and in .ncrna.fa.gz, with no "all" token, for "ncrna".                  *)
C2_NewEraSuffix ==
    NewEraNoDatabase =>
        /\ ~HasToken(FilenameOf(result.value), format_d(R))
        /\ sequence_type # "ncrna" =>
               EndsWith(result.value, "." \o sequence_type \o ".all.fa.gz")
        /\ sequence_type = "ncrna" =>
               /\ EndsWith(result.value, ".ncrna.fa.gz")
               /\ ~HasToken(FilenameOf(result.value), "all")

C2_Witness ==
    /\ Called("make_fasta_url")
    /\ ensembl_release = Some(76)
    /\ database = None
    /\ server = None
    /\ sequence_type = "ncrna"
    /\ result.value =
           "https://ftp.ensembl.org/pub/release-76/fasta/homo_sapiens/ncrna/Homo_sapiens.GRCh38.ncrna.fa.gz"

(* C2 as the specification words it: for every sequence_type the name ends *)
(* in .{sequence_type}.all.fa.gz.                                          *)
C2_Original ==
    NewEraNoDatabase =>
        /\ ~HasToken(FilenameOf(result.value), format_d(R))
        /\ EndsWith(result.value, "." \o sequence_type \o ".all.fa.gz")

----------------------------------------------------------------------------

GtfName == capitalize(Latin) \o "." \o Reference \o "." \o format_d(R) \o ".gtf.gz"

----------------------------------------------------------------------------

ExpectedServer ==
    IF server # None THEN server[1]
    ELSE IF database = None THEN "https://ftp.ensembl.org"
    ELSE "https://ftp.ensemblgenomes.ebi.ac.uk"

(* C4: in make_gtf_url and make_fasta_url the URL starts with the caller's *)
(* server whenever one is given, and then holds neither archive root;      *)
(* otherwise with https://ftp.ensembl.org when database is None and with   *)
(* https://ftp.ensemblgenomes.ebi.ac.uk when it is set; whatever the       *)
(* release, the species and the sequence_type.                             *)
C4_ServerPrefix ==
    (UrlCall /\ result.ok) =>
        /\ StartsWith(result.value, ExpectedServer \o "/pub/release-")
        /\ server # None =>
               /\ ~Contains(result.value, "https://ftp.ensembl.org")
               /\ ~Contains(result.value, "https://ftp.ensemblgenomes.ebi.ac.uk")

C4_Witness ==
    /\ Called("make_fasta_url")
    /\ server = None
    /\ database = Some("plants")
    /\ species = Obj(HomoSapiens)
    /\ result.ok
    /\ StartsWith(result.value, "https://ftp.ensemblgenomes.ebi.ac.uk/pub/release-")

C4_WitnessOverride ==
    /\ Called("make_gtf_url")
    /\ server = Some("ftp://mirror.example.org")
    /\ database = Some("plants")
    /\ result.ok
    /\ StartsWith(result.value, "ftp://mirror.example.org/pub/release-")

----------------------------------------------------------------------------
\* the filename the call's arguments stand for
UrlFilename ==
    IF op = "make_gtf_url" THEN GtfName
    ELSE IF OldEra THEN OldEraName ELSE NewEraName

\* url is srv + directory + filename, with the directory as C5 describes it
UrlShape(url, srv, filename, kind, release, db, latin, type) ==
    LET directory == SubSeq(url, Len(srv) + 1, Len(url) - Len(filename))
        release_dir == "/pub/release-" \o release \o "/"
    IN  /\ url = srv \o directory \o filename
        /\ ~Contains(filename, "/")
        /\ StartsWith(directory, "/")
        /\ EndsWith(directory, "/")
        /\ db = None =>
               StartsWith(directory, release_dir \o kind \o "/" \o latin \o "/")
        /\ db # None =>
               StartsWith(directory, release_dir \o db[1] \o "/" \o kind \o "/" \o latin \o "/")
        /\ kind = "fasta" => EndsWith(directory, "/" \o latin \o "/" \o type \o "/")
        /\ kind = "gtf" => EndsWith(directory, "/" \o latin \o "/")
        /\ ~Contains(directory, capitalize(latin))
        /\ StartsWith(filename, capitalize(latin) \o ".")

----------------------------------------------------------------------------

LastCall == calls[Len(calls)]

(* C6: when the species catalog cannot resolve the species, or the release *)
(* validator rejects the release for the species' database, each of the    *)
(* four functions ends in that error, unchanged: nothing is returned,      *)
(* nothing is put in place of the release, species or reference, and no    *)
(* collaborator is called again.                                           *)
C6_ErrorsPropagate ==
    pc = "done" =>
        /\ ~Resolved =>
               /\ ~result.ok
               /\ result.error = "UnknownSpeciesError"
               /\ result.value = ""
               /\ Len(calls) = 1
               /\ calls[1].fn = "find_species_by_name" /\ calls[1].name = species.name
        /\ (Resolved /\ ~TheRelease.ok) =>
               /\ ~result.ok
               /\ result.error = "InvalidReleaseError"
               /\ result.value = ""
               /\ LastCall.fn = "check_release_number"
               /\ LastCall.release = ensembl_release
               /\ NumCalls("check_release_number") = 1
               /\ NumCalls("which_reference") = 0
        /\ \A i \in 1..Len(calls) :
               ~calls[i].ok =>
                   /\ i = Len(calls)
                   /\ ~result.ok
                   /\ result.error = calls[i].out
                   /\ result.value = ""
        /\ ~result.ok => (Len(calls) > 0 /\ ~LastCall.ok)

C6_Witness ==
    /\ Called("make_fasta_url")
    /\ species = Name("glycine_max")
    /\ ensembl_release = Some(MIN_ENSEMBLGENOME_RELEASE - 1)
    /\ check_release_number(ensembl_release, None).ok
    /\ ~result.ok
    /\ result.error = "InvalidReleaseError"

C6_WitnessUnknownSpecies ==
    /\ Called("make_gtf_url")
    /\ species = Name("unicorn")
    /\ ~result.ok
    /\ result.error = "UnknownSpeciesError"

----------------------------------------------------------------------------

CollaboratorCalls == {"find_species_by_name", "check_release_number", "which_reference"}

(* C7, as amended: a call of make_gtf_url or make_fasta_url makes only     *)
(* read-only collaborator calls, and it normalizes twice, once itself and  *)
(* once in the filename function it calls: a call that returns a URL has   *)
(* made two release validations, two reference reads and two species       *)
(* lookups (one when the species is given as a Species object); a call     *)
(* that raises has made no more than these.                                *)
C7_TwoNormalizations ==
    UrlCall =>
        /\ \A i \in 1..Len(calls) : calls[i].fn \in CollaboratorCalls
        /\ NumCalls("find_species_by_name") <= (IF species.isSpecies THEN 1 ELSE 2)
        /\ NumCalls("check_release_number") <= 2
        /\ NumCalls("which_reference") <= 2
        /\ result.ok =>
               /\ NumCalls("find_species_by_name") = (IF species.isSpecies THEN 1 ELSE 2)
               /\ NumCalls("check_release_number") = 2
               /\ NumCalls("which_reference") = 2

C7_Witness ==
    /\ Called("make_gtf_url")
    /\ species = Name("human")
    /\ result.ok
    /\ Len(calls) = 6
    /\ calls[4].fn = "find_species_by_name" /\ calls[4].name = "homo_sapiens"

(* C7 as the specification words it: one species lookup and one release    *)
(* validation per call, and no further lookups before the URL is returned. *)
C7_Original ==
    (UrlCall /\ result.ok) =>
        /\ NumCalls("find_species_by_name") = 1
        /\ NumCalls("check_release_number") = 1

----------------------------------------------------------------------------
\* the database tag of the Species object a latin name belongs to
TagOf(latin_name) == (CHOOSE sp \in SpeciesObjects : sp.latin_name = latin_name).database

(* C8: in every normalization the collaborators are called in the order    *)
(* species lookup, release validation with the database tag of the species *)
(* found, reference read; the reference is only read with a release the    *)
(* validator has returned, and never after a lookup or a validation that   *)
(* failed.                                                                 *)
C8_CallOrder ==
    pc = "done" =>
        \A i \in 1..Len(calls) :
            /\ calls[i].fn = "find_species_by_name" =>
                   (i = 1 \/ calls[i - 1].fn = "which_reference")
            /\ calls[i].fn = "check_release_number" =>
                   /\ calls[i].database = TagOf(calls[i].name)
                   /\ i = 1 \/ calls[i - 1].fn \in {"find_species_by_name", "which_reference"}
                   /\ (i > 1 /\ calls[i - 1].fn = "find_species_by_name") =>
                          (calls[i - 1].ok /\ calls[i - 1].out = calls[i].name)
                   /\ i = 1 => (species.isSpecies /\ calls[i].name = species.obj.latin_name)
            /\ calls[i].fn = "which_reference" =>
                   /\ i > 1
                   /\ calls[i - 1].fn = "check_release_number"
                   /\ calls[i - 1].ok
                   /\ calls[i - 1].name = calls[i].name
                   /\ calls[i - 1].out = format_d(calls[i].release[1])
            /\ ~calls[i].ok => i = Len(calls)

C8_Witness ==
    /\ Called("make_fasta_filename")
    /\ species = Name("glycine_max")
    /\ ensembl_release = None
    /\ Len(calls) = 3
    /\ calls[1].fn = "find_species_by_name" /\ calls[1].out = "glycine_max"
    /\ calls[2].fn = "check_release_number" /\ calls[2].database = Some("plants")
    /\ calls[2].out = format_d(MAX_ENSEMBLGENOME_RELEASE)
    /\ calls[3].fn = "which_reference" /\ calls[3].release = Some(MAX_ENSEMBLGENOME_RELEASE)

----------------------------------------------------------------------------

TaggedSpeciesNoDatabase ==
    /\ TheSpecies.sp.database # None
    /\ database = None
    /\ R >= 32 /\ R <= 75

(* C9: in make_fasta_filename and make_fasta_url the era threshold, the    *)
(* server root and the directory come from the caller's database argument  *)
(* alone, and the release is validated against the database tag of the     *)
(* species alone; the two are never reconciled.  So for a species whose    *)
(* tag is set, a call with database None and a validated release in 32..75 *)
(* gives the primary root, the directory without a database segment and    *)
(* the old-era filename, with the release number.                          *)
C9_DatabaseArgumentAlone ==
    (FastaCall /\ result.ok) =>
        /\ \A i \in 1..Len(calls) :
               calls[i].fn = "check_release_number" =>
                   calls[i].database = TheSpecies.sp.database
        /\ FilenameOf(result.value) = (IF OldEra THEN OldEraName ELSE NewEraName)
        /\ TaggedSpeciesNoDatabase =>
               /\ FilenameOf(result.value) = OldEraName
               /\ HasToken(FilenameOf(result.value), format_d(R))
               /\ (op = "make_fasta_url" /\ server = None) =>
                      StartsWith(result.value,
                                 "https://ftp.ensembl.org/pub/release-" \o format_d(R)
                                     \o "/fasta/" \o Latin \o "/")

C9_Witness ==
    /\ Called("make_fasta_url")
    /\ species = Name("glycine_max")
    /\ ensembl_release = Some(50)
    /\ database = None
    /\ server = None
    /\ sequence_type = "cdna"
    /\ result.value =
         "https://ftp.ensembl.org/pub/release-50/fasta/glycine_max/cdna/Glycine_max.Glycine_max_v2.1.50.cdna.all.fa.gz"

----------------------------------------------------------------------------

FromCatalog == species.isSpecies => species.obj \in Catalog

FilenameForArguments ==
    IF op = "make_gtf_url"
    THEN make_gtf_filename(ensembl_release, species)
    ELSE make_fasta_filename(ensembl_release, species, database, sequence_type)

UnregisteredSpeciesObject ==
    /\ Called("make_gtf_url")
    /\ species = Obj(CustomSpecies)
    /\ make_gtf_filename(ensembl_release, species).ok
    /\ ~result.ok
    /\ result.error = "UnknownSpeciesError"

====
